---- MODULE Spec2Model ----
(***************************************************************************)
(* Model of the DuckDuckGo search tool handlers.                           *)
(*                                                                         *)
(* The repository holds three versions of the request handler:             *)
(*   "tool1"  src/api/mcp-tool.ts lines 1-80    (one global rate counter,  *)
(*            a direct library search)                                     *)
(*   "tool2"  src/api/mcp-tool.ts lines 82-312  (per-IP limiter, cookie    *)
(*            session, cookie-less retry, proxy fallback)                  *)
(*   "part"   src/unnamed/part_000              (per-IP limiter, session   *)
(*            with user agent, HTML fetch and parseResults)                *)
(* A deployment runs one of them: impl is chosen in Init and never         *)
(* changes.  Each handler is an async function; one action of the model is *)
(* the code that runs between two awaits.                                  *)
(***************************************************************************)
EXTENDS Integers, Sequences, FiniteSets, TLC

VARIABLES
  impl,           \* which handler module is deployed
  clock,          \* Date.now()
  scope,          \* the load of this behaviour: tasks, clients, clock steps
  ticks,          \* how often the clock has advanced
  requestCount,   \* tool1: let requestCount
  lastReset,      \* tool1: let lastReset
  RATE_LIMITS,    \* tool2 / part: Map ip -> {count, reset}
  SESSION_STORE,  \* tool2 / part: Map ip -> {cookies, (userAgent,) timestamp}
  req,            \* the in-flight requests, one record per task
  call            \* one call of a function on its own: arguments and return value

vars == <<impl, scope, clock, ticks, requestCount, lastReset, RATE_LIMITS, SESSION_STORE, req,
          call>>

----------------------------------------------------------------------------
(* Bounds of the model *)

\* how many times the clock advances in one behaviour
MaxTicks == 1

\* the longest result list a search returns
MaxResults == 2

\* the longest document and the largest maximum parseResults is called with
MaxBlocks == 3

MaxMax == 3

\* the largest count argument, and the longest result list, the count
\* computation is called with
MaxCount == 22

\* the request tasks and the client identities
Slots == {1, 2}

Clients == {"a", "b"}

\* One behaviour carries one of these loads:
\*   two clients, one request at a time, the clock at rest
\*   one client, one request at a time, the clock advancing
\*   one client, two requests in flight, the clock at rest
Scopes ==
  { [tasks |-> 1, clients |-> {"a", "b"}, ticks |-> 0],
    [tasks |-> 1, clients |-> {"a"}, ticks |-> MaxTicks],
    [tasks |-> 2, clients |-> {"a"}, ticks |-> 0] }

Impls == {"tool1", "tool2", "part"}

----------------------------------------------------------------------------
(* Program constants *)

\* src/api/mcp-tool.ts:8
RATE_LIMIT_PER_MINUTE == 10

\* src/api/mcp-tool.ts:206
MAX_REQ_PER_MIN == 5

\* src/unnamed/part_000:146
MAX_PER_MIN == 3

\* the 60_000 of src/api/mcp-tool.ts:12, :215 and src/unnamed/part_000:153
WINDOW_MS == 60000

\* 10 * 60 * 1000, src/api/mcp-tool.ts:150
TTL_TOOL2 == 600000

\* 12 * 60 * 1000, src/unnamed/part_000:104
TTL_PART == 720000

\* USER_AGENTS, src/unnamed/part_000:7-12
USER_AGENTS == <<"Chrome120-Windows", "Chrome120-Mac", "Chrome120-Linux", "Firefox134-Windows">>

\* the fixed User-Agent of getRealisticHeaders, src/api/mcp-tool.ts:106
FIREFOX_UA == "Firefox134-Windows"

\* the User-Agent of the proxy fetch, src/api/mcp-tool.ts:263
PROXY_UA == "AppleWebKit-Linux"

----------------------------------------------------------------------------
(* Maps (JavaScript Map): a function whose domain is the set of keys *)

MapHas(m, k) == k \in DOMAIN m

MapSet(m, k, v) == [x \in (DOMAIN m) \cup {k} |-> IF x = k THEN v ELSE m[x]]

MapDelete(m, k) == [x \in (DOMAIN m) \ {k} |-> m[x]]

EmptyMap == [x \in {} |-> 0]

----------------------------------------------------------------------------
(* Rate limiters.  Each returns the new limiter state and whether it threw *)

\* checkRateLimit() resetting the counter but keeping the old window start
checkRateLimitGlobal_keepsWindow(count, last, now) ==
  LET c1 == IF now - last > WINDOW_MS THEN 0 ELSE count
  IN  IF c1 >= RATE_LIMIT_PER_MINUTE
        THEN [thrown |-> TRUE, requestCount |-> c1, lastReset |-> last]
        ELSE [thrown |-> FALSE, requestCount |-> c1 + 1, lastReset |-> last]

\* tool1: checkRateLimit(), one counter for the whole instance
checkRateLimitGlobal(count, last, now) ==
  LET c1 == IF now - last > WINDOW_MS THEN 0 ELSE count
      l1 == IF now - last > WINDOW_MS THEN now ELSE last
  IN  IF c1 >= RATE_LIMIT_PER_MINUTE
        THEN [thrown |-> TRUE, requestCount |-> c1, lastReset |-> l1]
        ELSE [thrown |-> FALSE, requestCount |-> c1 + 1, lastReset |-> l1]

\* checkRateLimit counting the call before it checks: a rejected call is stored
checkRateLimit_countsRejected(limits, ip, now) ==
  LET afterDelete == IF MapHas(limits, ip) /\ now > limits[ip].reset
                       THEN MapDelete(limits, ip) ELSE limits
      current == IF MapHas(afterDelete, ip) THEN afterDelete[ip]
                 ELSE [count |-> 0, reset |-> now + WINDOW_MS]
      counted == MapSet(afterDelete, ip,
                        [count |-> current.count + 1, reset |-> current.reset])
  IN  IF current.count >= MAX_REQ_PER_MIN
        THEN [thrown |-> TRUE, limits |-> counted]
        ELSE [thrown |-> FALSE, limits |-> counted]

\* tool2: checkRateLimit(ip)
checkRateLimit(limits, ip, now) ==
  LET afterDelete == IF MapHas(limits, ip) /\ now > limits[ip].reset
                       THEN MapDelete(limits, ip) ELSE limits
      current == IF MapHas(afterDelete, ip) THEN afterDelete[ip]
                 ELSE [count |-> 0, reset |-> now + WINDOW_MS]
  IN  IF current.count >= MAX_REQ_PER_MIN
        THEN [thrown |-> TRUE, limits |-> afterDelete]
        ELSE [thrown |-> FALSE,
              limits |-> MapSet(afterDelete, ip,
                                [count |-> current.count + 1, reset |-> current.reset])]

\* enforceRateLimit comparing with > instead of >=
enforceRateLimit_offByOne(limits, ip, now) ==
  LET afterDelete == IF MapHas(limits, ip) /\ now > limits[ip].reset
                       THEN MapDelete(limits, ip) ELSE limits
      current == IF MapHas(afterDelete, ip) THEN afterDelete[ip]
                 ELSE [count |-> 0, reset |-> now + WINDOW_MS]
  IN  IF current.count > MAX_PER_MIN
        THEN [thrown |-> TRUE, limits |-> afterDelete]
        ELSE [thrown |-> FALSE,
              limits |-> MapSet(afterDelete, ip,
                                [count |-> current.count + 1, reset |-> current.reset])]

\* enforceRateLimit checking the count and leaving the increment for later
enforceRateLimit_checkOnly(limits, ip, now) ==
  LET afterDelete == IF MapHas(limits, ip) /\ now > limits[ip].reset
                       THEN MapDelete(limits, ip) ELSE limits
      current == IF MapHas(afterDelete, ip) THEN afterDelete[ip]
                 ELSE [count |-> 0, reset |-> now + WINDOW_MS]
  IN  IF current.count >= MAX_PER_MIN
        THEN [thrown |-> TRUE, limits |-> afterDelete]
        ELSE [thrown |-> FALSE, limits |-> afterDelete]

\* part: enforceRateLimit(ip)
enforceRateLimit(limits, ip, now) ==
  LET afterDelete == IF MapHas(limits, ip) /\ now > limits[ip].reset
                       THEN MapDelete(limits, ip) ELSE limits
      current == IF MapHas(afterDelete, ip) THEN afterDelete[ip]
                 ELSE [count |-> 0, reset |-> now + WINDOW_MS]
  IN  IF current.count >= MAX_PER_MIN
        THEN [thrown |-> TRUE, limits |-> afterDelete]
        ELSE [thrown |-> FALSE,
              limits |-> MapSet(afterDelete, ip,
                                [count |-> current.count + 1, reset |-> current.reset])]

----------------------------------------------------------------------------
(* Requests, responses and the collaborators' answers *)

\* a cookie string is the sequence of its name=value parts ('' is <<>>)
NoCookies == <<>>

\* res.status(..).json(..) / .end()
Resp(status, isError, kind, text, results) ==
  [status |-> status, isError |-> isError, kind |-> kind, text |-> text,
   results |-> results]

NoResp == Resp(0, FALSE, "none", "", <<>>)

\* a task that is not running
IdleReq ==
  [pc |-> "idle", client |-> "", count |-> 0, now |-> 0,
   cookies |-> NoCookies, userAgent |-> "", err |-> "",
   quota |-> "",
   had |-> "", landed |-> "no", landingGot |-> NoCookies,
   sent |-> <<>>, outs |-> <<>>, found |-> <<>>, resp |-> NoResp]

\* the request body: name, arguments.query, arguments.count
TOOL_NAME == "duckduckgo_web_search"

QueryArgs ==
  { [type |-> "string", truthy |-> TRUE],       \* "x"
    [type |-> "string", truthy |-> FALSE],      \* ""
    [type |-> "number", truthy |-> TRUE],       \* 42
    [type |-> "undefined", truthy |-> FALSE] }  \* no query, or no arguments

\* arguments.count: <<>> when absent, <<n>> when the integer n
CountArgs == { <<>>, <<1>> }

Bodies ==
  { [present |-> FALSE, name |-> "", query |-> [type |-> "undefined", truthy |-> FALSE],
     count |-> <<>>] }
  \cup [present : {TRUE}, name : {TOOL_NAME, "other_tool"}, query : QueryArgs,
        count : CountArgs]

Methods == {"POST", "GET"}

\* !args?.query || typeof args.query !== 'string'
queryInvalid(body) == ~body.query.truthy \/ body.query.type # "string"

Min(a, b) == IF a < b THEN a ELSE b

Max(a, b) == IF a > b THEN a ELSE b

\* Math.min(Math.max(Number(args.count) || 10, 1), 20)
clampCount(countArg) ==
  LET n == IF Len(countArg) = 0 THEN 0 ELSE countArg[1]   \* NaN and 0 are falsy
      v == IF n = 0 THEN 10 ELSE n
  IN  Min(Max(v, 1), 20)

\* results.slice(0, count)
slice(results, count) == SubSeq(results, 1, Min(Len(results), count))

\* Set-Cookie header values: the pieces between commas, each the sequence of
\* its ';'-separated fragments; <<>> is an absent header
SetCookieHeaders ==
  { <<>>,
    << <<"sid=1", "path=/">> >>,
    << <<"HttpOnly">>, <<"path=/", "sid=2">> >> }

\* c.startsWith('path') || c.startsWith('expires') || c.startsWith('HttpOnly')
startsWithAttribute(c) == c \in {"path=/", "expires=Wed", "HttpOnly"}

\* part: extractCookies(setCookie)
extractCookies(setCookie) ==
  IF setCookie = <<>> THEN NoCookies
  ELSE SelectSeq([i \in 1..Len(setCookie) |-> setCookie[i][1]],
                 LAMBDA c : c # "" /\ ~startsWithAttribute(c))

\* tool2: the extraction inside getInitialCookies, which filters nothing
initialCookiesOf(cookieHeader) ==
  IF cookieHeader = <<>> THEN NoCookies
  ELSE [i \in 1..Len(cookieHeader) |-> cookieHeader[i][1]]

\* the messages of the errors the collaborators throw
FETCH_FAILED == "fetch failed"

LibErrors == {"Failed to get the VQD for query", "request blocked by server", FETCH_FAILED}

\* e.message.includes('VQD') || e.message.includes('blocked')
includesVQDorBlocked(msg) ==
  msg \in {"Failed to get the VQD for query", "request blocked by server"}

\* what the library search returns: the first n results
LibResults == { [i \in 1..n |-> i] : n \in 0..MaxResults }

----------------------------------------------------------------------------
(* Result extraction (part) *)

\* a candidate block: what its result__a anchor's href is
\*   "absent"   no anchor matches          "relative"  not starting with http
\*   "self"     contains duckduckgo.com    "valid"     any other absolute URL
Hrefs == {"absent", "relative", "self", "valid"}

Block(href, id) == [href |-> href, id |-> id]

\* the documents the search page answers with in this model
Docs ==
  { <<>>,
    << Block("valid", 1) >>,
    << Block("relative", 1), Block("self", 2) >>,
    << Block("self", 1), Block("valid", 2) >>,
    << Block("valid", 1), Block("relative", 2), Block("valid", 3) >> }

\* the loop without the check for the engine's own pages
RECURSIVE parseFrom_keepsOwnPages(_, _, _, _)
parseFrom_keepsOwnPages(blocks, i, max, results) ==
  IF i > Len(blocks) THEN results
  ELSE IF Len(results) >= max THEN results
  ELSE IF blocks[i].href \in {"absent", "relative"}
         THEN parseFrom_keepsOwnPages(blocks, i + 1, max, results)
  ELSE parseFrom_keepsOwnPages(blocks, i + 1, max, Append(results, blocks[i].id))

\* part: parseResults(html, max), the loop over the blocks
RECURSIVE parseFrom(_, _, _, _)
parseFrom(blocks, i, max, results) ==
  IF i > Len(blocks) THEN results
  ELSE IF Len(results) >= max THEN results                          \* break
  ELSE IF blocks[i].href \in {"absent", "relative"}
         THEN parseFrom(blocks, i + 1, max, results)                \* continue
  ELSE IF blocks[i].href = "self"
         THEN parseFrom(blocks, i + 1, max, results)                \* continue
  ELSE parseFrom(blocks, i + 1, max, Append(results, blocks[i].id))

parseResults(html, max) == parseFrom(html, 1, max, <<>>)

----------------------------------------------------------------------------
(* Sessions *)

\* the lookup without the expiry check: a stored session is always reused
lookupSessionPart_neverExpires(store, ip, now) ==
  [store |-> store, found |-> MapHas(store, ip),
   had |-> IF MapHas(store, ip) THEN "valid" ELSE "none"]

\* part, humanLikeSearch: SESSION_STORE.get, the 12-minute expiry, delete
lookupSessionPart(store, ip, now) ==
  LET expired == MapHas(store, ip) /\ now - store[ip].timestamp > TTL_PART
  IN  [store |-> IF expired THEN MapDelete(store, ip) ELSE store,
       found |-> MapHas(store, ip) /\ ~expired,
       had   |-> IF ~MapHas(store, ip) THEN "none"
                 ELSE IF expired THEN "expired" ELSE "valid"]

\* tool2, performSearchWithSession: SESSION_STORE.get, the 10-minute expiry
lookupSessionTool2(store, ip, now) ==
  LET expired == MapHas(store, ip) /\ now - store[ip].timestamp > TTL_TOOL2
  IN  [store |-> IF expired THEN MapDelete(store, ip) ELSE store,
       found |-> MapHas(store, ip) /\ ~expired,
       had   |-> IF ~MapHas(store, ip) THEN "none"
                 ELSE IF expired THEN "expired" ELSE "valid"]

\* no function is called on its own
NoCall == [fn |-> "none", called |-> FALSE]

----------------------------------------------------------------------------
(* The event loop runs one callback at a time; a task that has answered is  *)
(* released before the next callback runs                                   *)

NoneDone == \A r \in Slots : req[r].pc # "done"

\* a new request takes the first free task
FirstIdle(r) ==
  /\ r <= scope.tasks
  /\ req[r].pc = "idle"
  /\ \A q \in Slots : q < r => req[q].pc # "idle"

\* the handler returns: its locals are gone; which fetches it sent, with which
\* cookies, how they ended and what it answered stays for inspection
Answer(rec, resp) ==
  [IdleReq EXCEPT !.pc = "done", !.client = rec.client, !.count = rec.count,
                  !.quota = rec.quota,
                  !.had = rec.had, !.landed = rec.landed,
                  !.landingGot = rec.landingGot,
                  !.sent = [i \in 1..Len(rec.sent) |->
                              [rec.sent[i] EXCEPT !.userAgent = ""]],
                  !.outs = rec.outs, !.err = rec.err, !.found = rec.found,
                  !.resp = resp]

Mark(outs, out) == Append(outs, out)

\* what the rate limiter found when the request arrived (kept for inspection):
\* no record, a record of a window that is over, a record at the ceiling
quotaFound(has, over, full) ==
  IF ~has THEN "none"
  ELSE IF over THEN (IF full THEN "overFull" ELSE "over")
  ELSE IF full THEN "full" ELSE "open"

----------------------------------------------------------------------------
(* part: handler and humanLikeSearch *)

RATE_LIMIT_MSG_PART == "Rate limit: 3 requests/minute/IP"

\* the catch block logging the error and returning without an answer
catchPart_logsOnly(rec, message) == [rec EXCEPT !.pc = "returned", !.err = message]

\* the answer of the catch block of handler
catchPart(rec, message) == Answer(rec, Resp(200, TRUE, "error", message, <<>>))

\* the success path treating an empty result list as a failed search
successPart_emptyThrows(rec, results) ==
  IF Len(results) = 0
    THEN Answer(rec, Resp(200, TRUE, "error", "No results", <<>>))
    ELSE Answer(rec, Resp(200, FALSE, "results", "", results))

\* the answer of the success path of handler
successPart(rec, results) ==
  Answer(rec, Resp(200, FALSE, IF Len(results) = 0 THEN "noresults" ELSE "results",
                   "", results))

\* handler looking the session up (and expiring it) before the rate limiter
handlerPartEntry_lookupFirst(ip, method, body, now, limits, store) ==
  LET rec0 == [IdleReq EXCEPT !.client = ip,
                              !.quota = quotaFound(MapHas(limits, ip),
                                                   MapHas(limits, ip) /\ now > limits[ip].reset,
                                                   MapHas(limits, ip)
                                                     /\ limits[ip].count >= MAX_PER_MIN)]
      rl   == enforceRateLimit(limits, ip, now)
      look == lookupSessionPart(store, ip, now)
      rec1 == [rec0 EXCEPT !.count = clampCount(body.count), !.now = now,
                           !.had = look.had]
  IN  IF method # "POST"
        THEN [req |-> Answer(rec0, Resp(405, FALSE, "method", "", <<>>)),
              limits |-> limits, store |-> store]
      ELSE IF rl.thrown
        THEN [req |-> catchPart(rec0, RATE_LIMIT_MSG_PART),
              limits |-> rl.limits, store |-> look.store]
      ELSE IF body.name # TOOL_NAME \/ queryInvalid(body)
        THEN [req |-> Answer(rec0, Resp(400, TRUE, "invalid", "Invalid request format", <<>>)),
              limits |-> rl.limits, store |-> store]
      ELSE IF look.found
        THEN [req |-> [rec1 EXCEPT !.pc = "typingDelay",
                                   !.cookies = store[ip].cookies,
                                   !.userAgent = store[ip].userAgent],
              limits |-> rl.limits, store |-> look.store]
      ELSE [req |-> [rec1 EXCEPT !.pc = "landingDelay"],
            limits |-> rl.limits, store |-> look.store]

\* handler, from the call to the first await inside humanLikeSearch
handlerPartEntry(ip, method, body, now, limits, store) ==
  LET rec0 == [IdleReq EXCEPT !.client = ip,
                              !.quota = quotaFound(MapHas(limits, ip),
                                                   MapHas(limits, ip) /\ now > limits[ip].reset,
                                                   MapHas(limits, ip)
                                                     /\ limits[ip].count >= MAX_PER_MIN)]
      rl   == enforceRateLimit(limits, ip, now)
      look == lookupSessionPart(store, ip, now)
      rec1 == [rec0 EXCEPT !.count = clampCount(body.count), !.now = now,
                           !.had = look.had]
  IN  IF method # "POST"
        THEN [req |-> Answer(rec0, Resp(405, FALSE, "method", "", <<>>)),
              limits |-> limits, store |-> store]
      ELSE IF rl.thrown
        THEN [req |-> catchPart(rec0, RATE_LIMIT_MSG_PART),
              limits |-> rl.limits, store |-> store]
      ELSE IF body.name # TOOL_NAME \/ queryInvalid(body)
        THEN [req |-> Answer(rec0, Resp(400, TRUE, "invalid", "Invalid request format", <<>>)),
              limits |-> rl.limits, store |-> store]
      ELSE IF look.found
        THEN [req |-> [rec1 EXCEPT !.pc = "typingDelay",
                                   !.cookies = store[ip].cookies,
                                   !.userAgent = store[ip].userAgent],
              limits |-> rl.limits, store |-> look.store]
      ELSE [req |-> [rec1 EXCEPT !.pc = "landingDelay"],
            limits |-> rl.limits, store |-> look.store]

PartReceive(r) ==
  /\ impl = "part" /\ NoneDone /\ FirstIdle(r)
  /\ \E ip \in scope.clients, method \in Methods, body \in Bodies :
       LET out == handlerPartEntry(ip, method, body, clock, RATE_LIMITS, SESSION_STORE)
       IN  /\ req' = [req EXCEPT ![r] = out.req]
           /\ RATE_LIMITS' = out.limits
           /\ SESSION_STORE' = out.store
  /\ UNCHANGED <<call, impl, scope, clock, ticks, requestCount, lastReset>>

\* the landing delay is over: establishSession picks a user agent and fetches
\* the home page
PartLandingDelay(r) ==
  /\ impl = "part" /\ NoneDone /\ req[r].pc = "landingDelay"
  /\ \E i \in 1..Len(USER_AGENTS) :
       req' = [req EXCEPT ![r].pc = "landingFetch", ![r].userAgent = USER_AGENTS[i],
                          ![r].landed = "pending"]
  /\ UNCHANGED <<call, impl, scope, clock, ticks, requestCount, lastReset, RATE_LIMITS, SESSION_STORE>>

\* establishSession after its fetch, and the SESSION_STORE.set of humanLikeSearch;
\* a fetch that throws is caught by handler only
establishSessionDone(rec, thrown, setCookie, store) ==
  IF thrown
    THEN [req |-> catchPart([rec EXCEPT !.landed = "throw"], FETCH_FAILED),
          store |-> store]
    ELSE LET cookies == extractCookies(setCookie)
         IN  [req |-> [rec EXCEPT !.pc = "typingDelay", !.landed = "ok",
                                  !.landingGot = cookies, !.cookies = cookies],
              store |-> MapSet(store, rec.client,
                               [cookies |-> cookies, userAgent |-> rec.userAgent,
                                timestamp |-> rec.now])]

PartLandingFetch(r) ==
  /\ impl = "part" /\ NoneDone /\ req[r].pc = "landingFetch"
  /\ \E thrown \in BOOLEAN, setCookie \in SetCookieHeaders :
       LET out == establishSessionDone(req[r], thrown, setCookie, SESSION_STORE)
       IN  /\ req' = [req EXCEPT ![r] = out.req]
           /\ SESSION_STORE' = out.store
  /\ UNCHANGED <<call, impl, scope, clock, ticks, requestCount, lastReset, RATE_LIMITS>>

\* the typing delay is over: the search fetch goes out with buildHeaders
searchFetchPart(rec) ==
  [rec EXCEPT !.pc = "searchFetch",
              !.sent = Append(@, [stage |-> "primary", cookies |-> rec.cookies,
                                  userAgent |-> rec.userAgent])]

PartTypingDelay(r) ==
  /\ impl = "part" /\ NoneDone /\ req[r].pc = "typingDelay"
  /\ req' = [req EXCEPT ![r] = searchFetchPart(req[r])]
  /\ UNCHANGED <<call, impl, scope, clock, ticks, requestCount, lastReset, RATE_LIMITS, SESSION_STORE>>

\* what the search fetch does: it throws, or answers with a status and a body
SearchAnswers ==
  [thrown : {TRUE}, status : {0}, marker : {FALSE}, doc : {<<>>}]
  \cup [thrown : {FALSE}, status : {403}, marker : {FALSE}, doc : {<<>>}]
  \cup [thrown : {FALSE}, status : {200}, marker : {TRUE}, doc : {<<>>}]
  \cup [thrown : {FALSE}, status : {200}, marker : {FALSE}, doc : Docs]

HTTP_403_MSG == "HTTP 403"

BLOCKED_MSG == "Blocked by anti-bot system"

\* humanLikeSearch after the search fetch, and the rest of handler
searchDonePart(rec, ans) ==
  IF ans.thrown
    THEN catchPart([rec EXCEPT !.outs = Mark(@, "fail"), !.err = FETCH_FAILED], FETCH_FAILED)
  ELSE IF ans.status # 200
    THEN catchPart([rec EXCEPT !.outs = Mark(@, "fail"), !.err = HTTP_403_MSG], HTTP_403_MSG)
  ELSE IF ans.marker
    THEN catchPart([rec EXCEPT !.outs = Mark(@, "blocked"), !.err = BLOCKED_MSG], BLOCKED_MSG)
  ELSE successPart([rec EXCEPT !.outs = Mark(@, "ok"), !.found = ans.doc],
                   parseResults(ans.doc, rec.count))

PartSearchFetch(r) ==
  /\ impl = "part" /\ NoneDone /\ req[r].pc = "searchFetch"
  /\ \E ans \in SearchAnswers : req' = [req EXCEPT ![r] = searchDonePart(req[r], ans)]
  /\ UNCHANGED <<call, impl, scope, clock, ticks, requestCount, lastReset, RATE_LIMITS, SESSION_STORE>>

----------------------------------------------------------------------------
(* What the library search DDG.search does: it throws or returns results *)

LibAnswers ==
  [thrown : {TRUE}, err : LibErrors, results : {<<>>}]
  \cup [thrown : {FALSE}, err : {""}, results : LibResults]

\* req.body is undefined: const { name, arguments: args } = body throws
DESTRUCTURE_MSG == "Cannot destructure property 'name' of 'body' as it is undefined."

----------------------------------------------------------------------------
(* tool1: handler *)

RATE_LIMIT_MSG_TOOL1 == "Rate limit exceeded: max 10 requests per minute"

\* the answer of the catch block of handler
catchTool1(rec, message) == Answer(rec, Resp(500, TRUE, "error", message, <<>>))

\* handler, from the call to the await of DDG.search
handlerTool1Entry(ip, method, body, now, count, last) ==
  LET rec0 == [IdleReq EXCEPT !.client = ip,
                              !.quota = quotaFound(TRUE, now - last > WINDOW_MS,
                                                   count >= RATE_LIMIT_PER_MINUTE)]
      rl   == checkRateLimitGlobal(count, last, now)
      same == [requestCount |-> count, lastReset |-> last]
      kept == [requestCount |-> rl.requestCount, lastReset |-> rl.lastReset]
  IN  IF method # "POST"
        THEN [req |-> Answer(rec0, Resp(405, FALSE, "method", "", <<>>)), rate |-> same]
      ELSE IF ~body.present
        THEN [req |-> catchTool1(rec0, DESTRUCTURE_MSG), rate |-> same]
      ELSE IF body.name # TOOL_NAME
        THEN [req |-> Answer(rec0, Resp(400, TRUE, "invalid", "Unknown tool", <<>>)),
              rate |-> same]
      ELSE IF queryInvalid(body)
        THEN [req |-> Answer(rec0, Resp(400, TRUE, "invalid",
                                        "Missing or invalid 'query' argument", <<>>)),
              rate |-> same]
      ELSE IF rl.thrown
        THEN [req |-> catchTool1([rec0 EXCEPT !.count = clampCount(body.count)],
                                 RATE_LIMIT_MSG_TOOL1),
              rate |-> kept]
      ELSE [req |-> [rec0 EXCEPT !.pc = "primary", !.count = clampCount(body.count),
                                 !.sent = <<[stage |-> "primary", cookies |-> NoCookies,
                                             userAgent |-> ""]>>],
            rate |-> kept]

Tool1Receive(r) ==
  /\ impl = "tool1" /\ NoneDone /\ FirstIdle(r)
  /\ \E ip \in scope.clients, method \in Methods, body \in Bodies :
       LET out == handlerTool1Entry(ip, method, body, clock, requestCount, lastReset)
       IN  /\ req' = [req EXCEPT ![r] = out.req]
           /\ requestCount' = out.rate.requestCount
           /\ lastReset' = out.rate.lastReset
  /\ UNCHANGED <<call, impl, scope, clock, ticks, RATE_LIMITS, SESSION_STORE>>

\* handler after DDG.search
searchDoneTool1(rec, ans) ==
  IF ans.thrown
    THEN catchTool1([rec EXCEPT !.outs = Mark(@, "fail"), !.err = ans.err], ans.err)
  ELSE IF Len(ans.results) = 0
    THEN Answer([rec EXCEPT !.outs = Mark(@, "ok"), !.found = ans.results],
                Resp(200, FALSE, "noresults", "", <<>>))
  ELSE Answer([rec EXCEPT !.outs = Mark(@, "ok"), !.found = ans.results],
              Resp(200, FALSE, "results", "", slice(ans.results, rec.count)))

Tool1Search(r) ==
  /\ impl = "tool1" /\ NoneDone /\ req[r].pc = "primary"
  /\ \E ans \in LibAnswers : req' = [req EXCEPT ![r] = searchDoneTool1(req[r], ans)]
  /\ UNCHANGED <<call, impl, scope, clock, ticks, requestCount, lastReset, RATE_LIMITS,
                 SESSION_STORE>>

----------------------------------------------------------------------------
(* tool2: handler, performSearchWithSession, getInitialCookies *)

RATE_LIMIT_MSG_TOOL2 == "Rate limit exceeded. Try again in 1 minute."

\* the outer catch block answering an empty success instead of the error
catchTool2_silentEmpty(rec, message) ==
  Answer(rec, Resp(200, FALSE, "noresults", "", <<>>))

\* the answer of the outer catch block of handler
catchTool2(rec, message) == Answer(rec, Resp(200, TRUE, "error", message, <<>>))

\* the answer of handler when performSearchWithSession returned
successTool2(rec, results) ==
  IF Len(results) = 0
    THEN Answer(rec, Resp(200, FALSE, "noresults", "", <<>>))
    ELSE Answer(rec, Resp(200, FALSE, "results", "", slice(results, rec.count)))

\* handler, from the call to the first await inside performSearchWithSession
handlerTool2Entry(ip, method, body, now, limits, store) ==
  LET rec0 == [IdleReq EXCEPT !.client = ip,
                              !.quota = quotaFound(MapHas(limits, ip),
                                                   MapHas(limits, ip) /\ now > limits[ip].reset,
                                                   MapHas(limits, ip)
                                                     /\ limits[ip].count >= MAX_REQ_PER_MIN)]
      rl   == checkRateLimit(limits, ip, now)
      look == lookupSessionTool2(store, ip, now)
      cookies == IF look.found THEN store[ip].cookies ELSE NoCookies
      rec1 == [rec0 EXCEPT !.count = clampCount(body.count), !.now = now,
                           !.had = look.had, !.cookies = cookies,
                           !.userAgent = FIREFOX_UA]
  IN  IF method # "POST"
        THEN [req |-> Answer(rec0, Resp(405, FALSE, "method", "", <<>>)),
              limits |-> limits, store |-> store]
      ELSE IF rl.thrown
        THEN [req |-> catchTool2(rec0, RATE_LIMIT_MSG_TOOL2),
              limits |-> rl.limits, store |-> store]
      ELSE IF ~body.present
        THEN [req |-> catchTool2(rec0, DESTRUCTURE_MSG),
              limits |-> rl.limits, store |-> store]
      ELSE IF body.name # TOOL_NAME
        THEN [req |-> Answer(rec0, Resp(400, TRUE, "invalid", "Unknown tool", <<>>)),
              limits |-> rl.limits, store |-> store]
      ELSE IF queryInvalid(body)
        THEN [req |-> Answer(rec0, Resp(400, TRUE, "invalid",
                                        "Missing or invalid query argument", <<>>)),
              limits |-> rl.limits, store |-> store]
      ELSE IF cookies = NoCookies
        THEN [req |-> [rec1 EXCEPT !.pc = "landingFetch", !.landed = "pending"],
              limits |-> rl.limits, store |-> look.store]
      ELSE [req |-> [rec1 EXCEPT !.pc = "delay"],
            limits |-> rl.limits, store |-> look.store]

Tool2Receive(r) ==
  /\ impl = "tool2" /\ NoneDone /\ FirstIdle(r)
  /\ \E ip \in scope.clients, method \in Methods, body \in Bodies :
       LET out == handlerTool2Entry(ip, method, body, clock, RATE_LIMITS, SESSION_STORE)
       IN  /\ req' = [req EXCEPT ![r] = out.req]
           /\ RATE_LIMITS' = out.limits
           /\ SESSION_STORE' = out.store
  /\ UNCHANGED <<call, impl, scope, clock, ticks, requestCount, lastReset>>

\* getInitialCookies after its fetch (a throw or the 8 s abort is caught and
\* gives ''), and the SESSION_STORE.set of performSearchWithSession
getInitialCookiesDone(rec, thrown, cookieHeader, store) ==
  LET cookies == IF thrown THEN NoCookies ELSE initialCookiesOf(cookieHeader)
  IN  [req |-> [rec EXCEPT !.pc = "delay", !.cookies = cookies,
                           !.landed = IF thrown THEN "throw" ELSE "ok",
                           !.landingGot = cookies],
       store |-> IF cookies # NoCookies
                   THEN MapSet(store, rec.client,
                               [cookies |-> cookies, timestamp |-> rec.now])
                   ELSE store]

Tool2LandingFetch(r) ==
  /\ impl = "tool2" /\ NoneDone /\ req[r].pc = "landingFetch"
  /\ \E thrown \in BOOLEAN, cookieHeader \in SetCookieHeaders :
       LET out == getInitialCookiesDone(req[r], thrown, cookieHeader, SESSION_STORE)
       IN  /\ req' = [req EXCEPT ![r] = out.req]
           /\ SESSION_STORE' = out.store
  /\ UNCHANGED <<call, impl, scope, clock, ticks, requestCount, lastReset, RATE_LIMITS>>

\* the delay is over: DDG.search goes out with getRealisticHeaders(cookies)
primarySearchTool2(rec) ==
  [rec EXCEPT !.pc = "primary",
              !.sent = Append(@, [stage |-> "primary", cookies |-> rec.cookies,
                                  userAgent |-> FIREFOX_UA])]

Tool2Delay(r) ==
  /\ impl = "tool2" /\ NoneDone /\ req[r].pc = "delay"
  /\ req' = [req EXCEPT ![r] = primarySearchTool2(req[r])]
  /\ UNCHANGED <<call, impl, scope, clock, ticks, requestCount, lastReset, RATE_LIMITS,
                 SESSION_STORE>>

\* the catch block going to the proxy whatever the error says
searchFailedTool2_alwaysProxy(rec) ==
  [rec EXCEPT !.pc = "proxy",
              !.sent = Append(@, [stage |-> "proxy", cookies |-> NoCookies,
                                  userAgent |-> PROXY_UA])]

\* the catch block around performSearchWithSession in handler: the proxy fetch
\* goes out when the message names VQD or blocked, else the error is rethrown
searchFailedTool2(rec) ==
  IF includesVQDorBlocked(rec.err)
    THEN [rec EXCEPT !.pc = "proxy",
                     !.sent = Append(@, [stage |-> "proxy", cookies |-> NoCookies,
                                         userAgent |-> PROXY_UA])]
    ELSE catchTool2(rec, rec.err)

\* performSearchWithSession without its cookie-less retry
primaryDoneTool2_noRetry(rec, ans) ==
  IF ~ans.thrown
    THEN successTool2([rec EXCEPT !.outs = Mark(@, "ok"), !.found = ans.results],
                      ans.results)
    ELSE searchFailedTool2([rec EXCEPT !.outs = Mark(@, "fail"), !.err = ans.err])

\* performSearchWithSession after the first DDG.search
primaryDoneTool2(rec, ans) ==
  IF ~ans.thrown
    THEN successTool2([rec EXCEPT !.outs = Mark(@, "ok"), !.found = ans.results],
                      ans.results)
  ELSE LET failed == [rec EXCEPT !.outs = Mark(@, "fail"), !.err = ans.err]
       IN  IF rec.cookies # NoCookies
             THEN [failed EXCEPT !.pc = "retry",
                                 !.sent = Append(@, [stage |-> "retry",
                                                     cookies |-> NoCookies,
                                                     userAgent |-> FIREFOX_UA])]
             ELSE searchFailedTool2(failed)

Tool2Primary(r) ==
  /\ impl = "tool2" /\ NoneDone /\ req[r].pc = "primary"
  /\ \E ans \in LibAnswers : req' = [req EXCEPT ![r] = primaryDoneTool2(req[r], ans)]
  /\ UNCHANGED <<call, impl, scope, clock, ticks, requestCount, lastReset, RATE_LIMITS,
                 SESSION_STORE>>

\* performSearchWithSession after the cookie-less DDG.search: its own error
\* is dropped and the first one rethrown
retryDoneTool2(rec, ans) ==
  IF ~ans.thrown
    THEN successTool2([rec EXCEPT !.outs = Mark(@, "ok"), !.found = ans.results],
                      ans.results)
    ELSE searchFailedTool2([rec EXCEPT !.outs = Mark(@, "fail")])

Tool2Retry(r) ==
  /\ impl = "tool2" /\ NoneDone /\ req[r].pc = "retry"
  /\ \E ans \in LibAnswers : req' = [req EXCEPT ![r] = retryDoneTool2(req[r], ans)]
  /\ UNCHANGED <<call, impl, scope, clock, ticks, requestCount, lastReset, RATE_LIMITS,
                 SESSION_STORE>>

\* what the proxy fetch does: it throws, or answers a page with some result
\* anchors in it
ProxyAnswers ==
  [thrown : {TRUE}, matches : {<<>>}] \cup [thrown : {FALSE}, matches : LibResults]

\* handler after the proxy fetch
proxyDoneTool2(rec, ans) ==
  IF ans.thrown
    THEN catchTool2([rec EXCEPT !.outs = Mark(@, "fail")], rec.err)
  ELSE IF Len(ans.matches) > 0
    THEN Answer([rec EXCEPT !.outs = Mark(@, "ok"), !.found = ans.matches],
                Resp(200, FALSE, "proxy", "", slice(ans.matches, rec.count)))
  ELSE catchTool2([rec EXCEPT !.outs = Mark(@, "empty")], rec.err)

Tool2Proxy(r) ==
  /\ impl = "tool2" /\ NoneDone /\ req[r].pc = "proxy"
  /\ \E ans \in ProxyAnswers : req' = [req EXCEPT ![r] = proxyDoneTool2(req[r], ans)]
  /\ UNCHANGED <<call, impl, scope, clock, ticks, requestCount, lastReset, RATE_LIMITS,
                 SESSION_STORE>>

----------------------------------------------------------------------------
(* The clock and the release of a task *)

\* the time steps taken: up to, and just past, a window and a session lifetime
Deltas ==
  {WINDOW_MS, WINDOW_MS + 1}
  \cup (IF impl = "tool2" THEN {TTL_TOOL2, TTL_TOOL2 + 1} ELSE {})
  \cup (IF impl = "part" THEN {TTL_PART, TTL_PART + 1} ELSE {})

Tick ==
  /\ NoneDone /\ ticks < scope.ticks
  /\ \E d \in Deltas : clock' = clock + d
  /\ ticks' = ticks + 1
  /\ UNCHANGED <<call, impl, scope, requestCount, lastReset, RATE_LIMITS, SESSION_STORE, req>>

Release(r) ==
  /\ req[r].pc = "done"
  /\ req' = [req EXCEPT ![r] = IdleReq]
  /\ UNCHANGED <<call, impl, scope, clock, ticks, requestCount, lastReset, RATE_LIMITS, SESSION_STORE>>

----------------------------------------------------------------------------

Init ==
  /\ impl \in Impls
  /\ scope \in Scopes
  /\ clock = 0 /\ ticks = 0
  /\ requestCount = 0 /\ lastReset = 0
  /\ RATE_LIMITS = EmptyMap
  /\ SESSION_STORE = EmptyMap
  /\ req = [r \in Slots |-> IdleReq]
  /\ call = NoCall

Next ==
  \/ Tick
  \/ \E r \in Slots : Release(r)
  \/ \E r \in Slots : Tool1Receive(r)
  \/ \E r \in Slots : Tool1Search(r)
  \/ \E r \in Slots : Tool2Receive(r)
  \/ \E r \in Slots : Tool2LandingFetch(r)
  \/ \E r \in Slots : Tool2Delay(r)
  \/ \E r \in Slots : Tool2Primary(r)
  \/ \E r \in Slots : Tool2Retry(r)
  \/ \E r \in Slots : Tool2Proxy(r)
  \/ \E r \in Slots : PartReceive(r)
  \/ \E r \in Slots : PartLandingDelay(r)
  \/ \E r \in Slots : PartLandingFetch(r)
  \/ \E r \in Slots : PartTypingDelay(r)
  \/ \E r \in Slots : PartSearchFetch(r)

Spec == Init /\ [][Next]_vars

\* the deployment of part alone
InitPart == Init /\ impl = "part"

NextPart ==
  \/ Tick
  \/ \E r \in Slots : Release(r)
  \/ \E r \in Slots : PartReceive(r)
  \/ \E r \in Slots : PartLandingDelay(r)
  \/ \E r \in Slots : PartLandingFetch(r)
  \/ \E r \in Slots : PartTypingDelay(r)
  \/ \E r \in Slots : PartSearchFetch(r)

SpecPart == InitPart /\ [][NextPart]_vars

----------------------------------------------------------------------------
(* What a step did, read off the state before and after it *)

\* task r took a request in this step
Arrived(r) == req[r].pc = "idle" /\ req'[r].pc # "idle"

RateLimitMsg ==
  CASE impl = "tool1" -> RATE_LIMIT_MSG_TOOL1
    [] impl = "tool2" -> RATE_LIMIT_MSG_TOOL2
    [] impl = "part"  -> RATE_LIMIT_MSG_PART

Ceiling ==
  CASE impl = "tool1" -> RATE_LIMIT_PER_MINUTE
    [] impl = "tool2" -> MAX_REQ_PER_MIN
    [] impl = "part"  -> MAX_PER_MIN

\* the request of task r was turned down by the rate limiter
RateLimited(rec) == rec.pc = "done" /\ rec.resp.text = RateLimitMsg

\* the step called the rate limiter for the request task r took: tool2 and
\* part call it for every POST, tool1 after the body has been validated
LimiterCalled(r) ==
  /\ Arrived(r)
  /\ IF impl = "tool1"
       THEN req'[r].pc = "primary" \/ RateLimited(req'[r])
       ELSE req'[r].resp.kind # "method"

LimiterRejected(r) == Arrived(r) /\ RateLimited(req'[r])

\* the rate record of a client as the three limiters keep it
HasRecord(limits, ip) == impl = "tool1" \/ MapHas(limits, ip)

CountOf(limits, rc, ip) ==
  IF impl = "tool1" THEN rc ELSE IF MapHas(limits, ip) THEN limits[ip].count ELSE 0

ResetAtOf(limits, last, ip) ==
  IF impl = "tool1" THEN last + WINDOW_MS ELSE limits[ip].reset

----------------------------------------------------------------------------
(* C1: the stored count of a client never exceeds the ceiling (10 in tool1,  *)
(* 5 in tool2, 3 in part); within a window every admitted call adds one to   *)
(* the count, and a call that finds the count at the ceiling is rejected.    *)

C1_CountWithinCeiling ==
  \A ip \in Clients : CountOf(RATE_LIMITS, requestCount, ip) <= Ceiling

C1_ExcessRejected ==
  \A r \in Slots :
    LET ip == req'[r].client
    IN  (/\ LimiterCalled(r)
         /\ HasRecord(RATE_LIMITS, ip)
         /\ clock <= ResetAtOf(RATE_LIMITS, lastReset, ip))
        => /\ CountOf(RATE_LIMITS, requestCount, ip) = Ceiling => RateLimited(req'[r])
           /\ ~RateLimited(req'[r]) =>
                CountOf(RATE_LIMITS', requestCount', ip)
                  = CountOf(RATE_LIMITS, requestCount, ip) + 1

C1_RateCeiling == [](C1_CountWithinCeiling) /\ [][C1_ExcessRejected]_vars

\* the eleventh call of a window of tool1 has been rejected
C1_Witness ==
  \E r \in Slots :
    /\ impl = "tool1" /\ RateLimited(req[r])
    /\ req[r].quota = "full"
    /\ requestCount = RATE_LIMIT_PER_MINUTE

(* C2: a request that starts its search while the stored session of its     *)
(* client is older than the lifetime (12 min in part, 10 min in tool2)       *)
(* deletes that session, fetches the landing page again, and sends on its    *)
(* search fetch the cookies that landing fetch gave, not the stored ones.    *)

Ttl == IF impl = "part" THEN TTL_PART ELSE TTL_TOOL2

\* the search function was entered in this step (the request was admitted and
\* well-formed)
SearchStarted(r) == Arrived(r) /\ req'[r].pc # "done"

C2_Entry ==
  \A r \in Slots :
    LET ip == req'[r].client
    IN  (/\ impl # "tool1" /\ SearchStarted(r)
         /\ MapHas(SESSION_STORE, ip)
         /\ clock - SESSION_STORE[ip].timestamp > Ttl)
        => /\ ~MapHas(SESSION_STORE', ip)
           /\ req'[r].had = "expired"
           /\ req'[r].sent = <<>>
           /\ req'[r].pc \in {"landingDelay", "landingFetch"}

C2_Fresh ==
  \A r \in Slots :
    req[r].had = "expired" =>
      /\ req[r].pc = "landingDelay" \/ req[r].landed # "no"
      /\ \A i \in 1..Len(req[r].sent) :
           /\ req[r].landed \in {"ok", "throw"}
           /\ req[r].sent[i].cookies =
                (IF req[r].sent[i].stage = "primary" THEN req[r].landingGot ELSE NoCookies)

C2_ExpiredSessionNotReused == [][C2_Entry]_vars /\ [](C2_Fresh)

\* a request of part found an expired session and has sent its search fetch
\* with the cookies of its own landing fetch
C2_Witness ==
  \E r \in Slots :
    /\ impl = "part" /\ req[r].pc = "searchFetch" /\ req[r].had = "expired"
    /\ req[r].landed = "ok" /\ Len(req[r].sent) = 1
    /\ req[r].sent[1].cookies = req[r].landingGot
    /\ MapHas(SESSION_STORE, req[r].client)
    /\ SESSION_STORE[req[r].client].timestamp = clock

(* C3: when the primary search of a request is blocked (anti-bot marker or   *)
(* non-success status), the search is retried without cookies, and a retry   *)
(* that returns results makes the answer a success with those results.       *)

Stages(rec) == [i \in 1..Len(rec.sent) |-> rec.sent[i].stage]

HasStage(rec, stage) == \E i \in 1..Len(rec.sent) : rec.sent[i].stage = stage

\* the primary search ended blocked: the marker or a non-success status in
\* part, a library error naming VQD or blocked in tool1 and tool2
PrimaryBlocked(rec) ==
  /\ Len(rec.outs) >= 1
  /\ \/ rec.outs[1] = "blocked"
     \/ rec.outs[1] = "fail" /\ rec.err \in {HTTP_403_MSG, "Failed to get the VQD for query",
                                             "request blocked by server"}

C3_BlockedThenRetried ==
  \A r \in Slots :
    (req[r].pc = "done" /\ PrimaryBlocked(req[r])) =>
      /\ Len(req[r].sent) >= 2
      /\ req[r].sent[2].stage = "retry" /\ req[r].sent[2].cookies = NoCookies
      /\ (req[r].outs[2] = "ok" /\ Len(req[r].found) > 0) =>
           /\ req[r].resp.isError = FALSE
           /\ req[r].resp.results = slice(req[r].found, req[r].count)

(* C4: a landing-page fetch that fails does not fail the request: a session  *)
(* with an empty cookie string is stored for the client and the request      *)
(* goes on to its search fetch.                                              *)

C4_LandingFailureDegrades ==
  \A r \in Slots :
    req[r].landed = "throw" =>
      /\ req[r].pc = "done" => Len(req[r].sent) >= 1
      /\ req[r].pc \in {"delay", "typingDelay"} =>
           /\ MapHas(SESSION_STORE, req[r].client)
           /\ SESSION_STORE[req[r].client].cookies = NoCookies

(* C5: a request that finds its client's rate record at the ceiling, inside  *)
(* the window, ends with the rate-limit answer in the same step: no landing  *)
(* fetch, no search fetch, no fallback, and the session store untouched.     *)

C5_Step ==
  \A r \in Slots :
    LET ip == req'[r].client
    IN  (/\ LimiterCalled(r)
         /\ HasRecord(RATE_LIMITS, ip)
         /\ clock <= ResetAtOf(RATE_LIMITS, lastReset, ip)
         /\ CountOf(RATE_LIMITS, requestCount, ip) >= Ceiling)
        => /\ RateLimited(req'[r])
           /\ req'[r].resp.isError
           /\ req'[r].sent = <<>> /\ req'[r].landed = "no"
           /\ SESSION_STORE' = SESSION_STORE

C5_RateLimitedBeforeNetwork == [][C5_Step]_vars

\* part has turned a request down while the client's session was out of date
C5_Witness ==
  \E r \in Slots :
    /\ impl = "part" /\ RateLimited(req[r]) /\ req[r].quota = "full"
    /\ req[r].sent = <<>>
    /\ MapHas(SESSION_STORE, req[r].client)
    /\ clock - SESSION_STORE[req[r].client].timestamp > TTL_PART

(* C6: an answer "no results" with isError false is given only when a search *)
(* attempt completed without error; when every stage that was attempted      *)
(* failed, the answer has isError true and carries the error's message.      *)

C6_NoSilentEmpty ==
  \A r \in Slots :
    req[r].pc = "done" =>
      /\ (~req[r].resp.isError /\ req[r].resp.kind = "noresults") =>
           \E i \in 1..Len(req[r].outs) : req[r].outs[i] = "ok"
      /\ (Len(req[r].sent) >= 1 /\ \A i \in 1..Len(req[r].outs) : req[r].outs[i] # "ok") =>
           /\ req[r].resp.isError
           /\ req[r].err # ""
           /\ req[r].resp.text = req[r].err

\* tool2 has answered after its search, its retry and the proxy all failed
C6_Witness ==
  \E r \in Slots :
    /\ impl = "tool2" /\ req[r].pc = "done"
    /\ Stages(req[r]) = <<"primary", "retry", "proxy">>
    /\ req[r].outs = <<"fail", "fail", "fail">>
    /\ req[r].resp.isError /\ req[r].resp.text = req[r].err

(* C7: the proxy fetch goes out only for a failure whose message indicates   *)
(* blocking; after a transient network failure the proxy is never called     *)
(* and at most the cookie-less retry is used.                                *)

C7_ProxyOnlyWhenBlocked ==
  \A r \in Slots :
    /\ HasStage(req[r], "proxy") =>
         req[r].err \in {"Failed to get the VQD for query", "request blocked by server"}
    /\ (Len(req[r].outs) >= 1 /\ req[r].outs[1] = "fail" /\ req[r].err = FETCH_FAILED) =>
         /\ ~HasStage(req[r], "proxy")
         /\ \A i \in 1..Len(req[r].sent) : req[r].sent[i].stage \in {"primary", "retry"}

\* tool2 has given up after a transient failure of the search and of the retry
C7_Witness ==
  \E r \in Slots :
    /\ impl = "tool2" /\ req[r].pc = "done" /\ req[r].err = FETCH_FAILED
    /\ Stages(req[r]) = <<"primary", "retry">>
    /\ req[r].outs = <<"fail", "fail">>
    /\ req[r].resp.isError

(* C8: the fallback stages run in order and only after a failure: the retry  *)
(* after a failed primary search, the proxy after a failed retry, and no     *)
(* stage after one that succeeded.  As claimed, the proxy always follows a   *)
(* retry; in the code it follows the primary search directly when that       *)
(* search carried no cookies.                                                *)

C8_Order(rec) ==
  /\ \A i \in 1..Len(rec.sent) :
       /\ i = 1 <=> rec.sent[i].stage = "primary"
       /\ i > 1 => rec.outs[i - 1] \in {"fail", "blocked"}
       /\ rec.sent[i].stage = "retry" => i = 2
  /\ \A i \in 1..Len(rec.outs) : rec.outs[i] = "ok" => i = Len(rec.sent)

C8_ProxyAfterRetry(rec) ==
  \A i \in 1..Len(rec.sent) :
    rec.sent[i].stage = "proxy" =>
      i = 3 /\ rec.sent[2].stage = "retry" /\ rec.outs[2] = "fail"

C8_ProxyAfterRetryIfCookies(rec) ==
  \A i \in 1..Len(rec.sent) :
    rec.sent[i].stage = "proxy" =>
      IF rec.sent[1].cookies # NoCookies
        THEN i = 3 /\ rec.sent[2].stage = "retry" /\ rec.outs[2] = "fail"
        ELSE i = 2

C9_Step ==
  \A r \in Slots :
    LimiterRejected(r) =>
      /\ RATE_LIMITS' = RATE_LIMITS
      /\ requestCount' = requestCount
      /\ lastReset' = lastReset

C9_RejectionKeepsRecords == [][C9_Step]_vars

\* client a has been rejected by tool2 while client b holds a record
C9_Witness ==
  \E r \in Slots :
    /\ impl = "tool2" /\ RateLimited(req[r]) /\ req[r].client = "a"
    /\ MapHas(RATE_LIMITS, "a") /\ RATE_LIMITS["a"].count = MAX_REQ_PER_MIN
    /\ MapHas(RATE_LIMITS, "b")

(* C10: a call later than the stored reset time is admitted whatever the     *)
(* count was, and leaves count 1 and a reset time 60 s after the call; a     *)
(* call within the window leaves the reset time as it was.                   *)

C10_Step ==
  \A r \in Slots :
    LET ip == req'[r].client
    IN  (LimiterCalled(r) /\ HasRecord(RATE_LIMITS, ip)) =>
          IF clock > ResetAtOf(RATE_LIMITS, lastReset, ip)
            THEN /\ ~RateLimited(req'[r])
                 /\ HasRecord(RATE_LIMITS', ip)
                 /\ CountOf(RATE_LIMITS', requestCount', ip) = 1
                 /\ ResetAtOf(RATE_LIMITS', lastReset', ip) = clock + WINDOW_MS
            ELSE /\ HasRecord(RATE_LIMITS', ip)
                 /\ ResetAtOf(RATE_LIMITS', lastReset', ip)
                      = ResetAtOf(RATE_LIMITS, lastReset, ip)

C10_WindowRollover == [][C10_Step]_vars

\* a call of tool1 found the counter at the ceiling and the window over
C10_Witness ==
  \E r \in Slots :
    /\ impl = "tool1" /\ req[r].pc = "primary"
    /\ req[r].quota = "overFull"
    /\ requestCount = 1 /\ lastReset = clock

(* C11: a request whose search failed for good (the primary search and every *)
(* fallback stage that was attempted failed) is answered with HTTP status    *)
(* 200 and isError true, never with an HTTP failure status.                  *)

\* every fetch the request sent has ended, and none of them succeeded
SearchFailedTerminally(rec) ==
  /\ rec.pc = "done"
  /\ Len(rec.sent) >= 1 /\ Len(rec.outs) = Len(rec.sent)
  /\ \A i \in 1..Len(rec.outs) : rec.outs[i] # "ok"

C11_TerminalFailureIs200 ==
  \A r \in Slots :
    SearchFailedTerminally(req[r]) =>
      /\ req[r].resp.status = 200
      /\ req[r].resp.isError

(* C12: a request the rate limiter rejects, and a request with a wrong tool  *)
(* name or a missing, empty or non-string query, is answered with a 4xx      *)
(* status, whatever the state of the rate limiter.                           *)

\* a wrong tool name, or a missing, empty or non-string query
Malformed(body) == ~body.present \/ body.name # TOOL_NAME \/ queryInvalid(body)

\* what the deployed handler makes of a POST with this body in this state
EntryOf(ip, body) ==
  CASE impl = "tool1" ->
         handlerTool1Entry(ip, "POST", body, clock, requestCount, lastReset).req
    [] impl = "tool2" ->
         handlerTool2Entry(ip, "POST", body, clock, RATE_LIMITS, SESSION_STORE).req
    [] impl = "part" ->
         handlerPartEntry(ip, "POST", body, clock, RATE_LIMITS, SESSION_STORE).req

\* the request task r took in this step was a malformed POST
MalformedArrived(r) ==
  /\ Arrived(r)
  /\ \E body \in Bodies : Malformed(body) /\ EntryOf(req'[r].client, body) = req'[r]

C12_Step ==
  \A r \in Slots :
    (LimiterRejected(r) \/ MalformedArrived(r)) =>
      /\ req'[r].pc = "done"
      /\ req'[r].resp.status \in 400..499

C12_RejectionsAre4xx == [][C12_Step]_vars

(* C13: every POST is answered exactly once.  A request that is in flight    *)
(* is answered eventually, whatever its fetches and timers give, provided    *)
(* each of them completes; an answered request is never answered again, and  *)
(* no request leaves its task without an answer.                             *)

\* the callback of task r that a completed timer or fetch resumes
Resume(r) ==
  \/ Tool1Search(r)
  \/ Tool2LandingFetch(r) \/ Tool2Delay(r) \/ Tool2Primary(r) \/ Tool2Retry(r)
  \/ Tool2Proxy(r)
  \/ PartLandingDelay(r) \/ PartLandingFetch(r) \/ PartTypingDelay(r)
  \/ PartSearchFetch(r)

\* Every timer and fetch completes, and the event loop runs a callback that
\* stays ready
Fairness ==
  \A r \in Slots : WF_vars(Resume(r)) /\ WF_vars(Release(r))

\* one request at a time: two clients with the clock at rest, or one client
\* with the clock advancing
InitLive == Init /\ scope.tasks = 1

SpecLive == InitLive /\ [][Next]_vars /\ Fairness

InFlight(rec) == rec.pc \notin {"idle", "done"}

Answered(rec) == rec.pc = "done" /\ rec.resp # NoResp /\ rec.resp.status # 0

C13_Eventually ==
  \A r \in Slots : InFlight(req[r]) ~> Answered(req[r])

C13_Once ==
  \A r \in Slots :
    /\ req[r].resp # NoResp => req'[r] = req[r] \/ req'[r] = IdleReq
    /\ req'[r].resp # NoResp => req'[r].pc = "done"
    /\ (req[r].pc # "idle" /\ req'[r].pc = "idle") => Answered(req[r])
    /\ (req[r].pc = "idle" /\ req'[r].pc # "idle") =>
         InFlight(req'[r]) \/ Answered(req'[r])

C13_ExactlyOneResponse == C13_Eventually /\ [][C13_Once]_vars

\* tool2 has answered a request whose landing fetch threw and whose search,
\* retry-less, went to the proxy, which threw as well
C13_Witness ==
  \E r \in Slots :
    /\ impl = "tool2" /\ Answered(req[r])
    /\ req[r].landed = "throw"
    /\ Stages(req[r]) = <<"primary", "proxy">>
    /\ req[r].outs = <<"fail", "fail">>

(* C14: a search that succeeded (success status, no block marker) and gave   *)
(* no valid result is answered as a success, isError false, with the         *)
(* no-results message, and no fallback stage follows it.                     *)

\* what the successful search returned holds no valid result
NoValidResults(rec) ==
  IF impl = "part"
    THEN \A i \in 1..Len(rec.found) : rec.found[i].href # "valid"
    ELSE Len(rec.found) = 0

\* the search (the primary one, or the cookie-less one) of a finished request
\* succeeded
SearchSucceeded(rec) ==
  /\ rec.pc = "done" /\ Len(rec.outs) >= 1
  /\ Len(rec.sent) >= Len(rec.outs)
  /\ rec.outs[Len(rec.outs)] = "ok"
  /\ rec.sent[Len(rec.outs)].stage \in {"primary", "retry"}

C14_ZeroResultsIsSuccess ==
  \A r \in Slots :
    (SearchSucceeded(req[r]) /\ NoValidResults(req[r])) =>
      /\ req[r].resp.status = 200
      /\ ~req[r].resp.isError
      /\ req[r].resp.kind = "noresults"
      /\ req[r].resp.results = <<>>
      /\ Len(req[r].sent) = Len(req[r].outs)
      /\ ~HasStage(req[r], "proxy")

\* part has answered a search whose page held blocks, none of them valid
C14_Witness ==
  \E r \in Slots :
    /\ impl = "part" /\ SearchSucceeded(req[r])
    /\ Len(req[r].found) = 2 /\ NoValidResults(req[r])
    /\ req[r].resp.kind = "noresults" /\ ~req[r].resp.isError

----------------------------------------------------------------------------
(* parseResults called on its own, on every document of up to MaxBlocks      *)
(* blocks and every maximum up to MaxMax                                     *)

\* the documents of k blocks; the id of a block is its place in the document
DocsOfLen(k) == { [i \in 1..k |-> Block(f[i], i)] : f \in [1..k -> Hrefs] }

AllDocs == UNION { DocsOfLen(k) : k \in 0..MaxBlocks }

\* module state when no request has been served
Quiet ==
  /\ scope = [tasks |-> 1, clients |-> {"a"}, ticks |-> 0]
  /\ clock = 0 /\ ticks = 0
  /\ requestCount = 0 /\ lastReset = 0
  /\ RATE_LIMITS = EmptyMap
  /\ SESSION_STORE = EmptyMap
  /\ req = [r \in Slots |-> IdleReq]

InitParse ==
  /\ impl = "part" /\ Quiet
  /\ call \in [fn : {"parseResults"}, html : AllDocs, max : 0..MaxMax,
               out : {<<>>}, called : {FALSE}]

CallParseResults ==
  /\ call.fn = "parseResults" /\ ~call.called
  /\ call' = [call EXCEPT !.out = parseResults(call.html, call.max), !.called = TRUE]
  /\ UNCHANGED <<impl, scope, clock, ticks, requestCount, lastReset, RATE_LIMITS,
                 SESSION_STORE, req>>

NextParse == CallParseResults

SpecParse == InitParse /\ [][NextParse]_vars

(* C15: for every document and every maximum, parseResults returns the first *)
(* min(max, number of valid blocks) valid blocks in document order: never    *)
(* more than max results, and none whose URL holds the engine's own domain.  *)

\* the places of the valid blocks of a document, in document order
ValidPlaces(html) ==
  SelectSeq([i \in 1..Len(html) |-> i], LAMBDA i : html[i].href = "valid")

C15_ParseResults ==
  (call.fn = "parseResults" /\ call.called) =>
    LET valid == ValidPlaces(call.html)
        n     == Min(call.max, Len(valid))
    IN  /\ Len(call.out) = n
        /\ Len(call.out) <= call.max
        /\ \A i \in 1..n : call.out[i] = call.html[valid[i]].id
        /\ \A i \in 1..Len(call.out) :
             \E j \in 1..Len(call.html) :
               call.html[j].id = call.out[i] /\ call.html[j].href # "self"

\* a document with a page of the engine and two valid blocks, cut at one
\* result
C15_Witness ==
  /\ call.fn = "parseResults" /\ call.called
  /\ Len(call.html) = 3 /\ call.max = 1
  /\ call.html[1].href = "self" /\ call.html[2].href = "valid"
  /\ call.html[3].href = "valid"
  /\ call.out = <<2>>

----------------------------------------------------------------------------
(* The count computation of handler and the cut of the result list, called   *)
(* on their own on every count argument from -MaxCount to MaxCount (and an   *)
(* absent one) and every result list of up to MaxCount results               *)

CountInputs == { <<>> } \cup { <<n>> : n \in (0 - MaxCount)..MaxCount }

InitCount ==
  /\ impl = "tool2" /\ Quiet
  /\ call \in [fn : {"count"}, arg : CountInputs,
               results : { [i \in 1..n |-> i] : n \in 0..MaxCount },
               count : {0}, out : {<<>>}, called : {FALSE}]

CallCount ==
  /\ call.fn = "count" /\ ~call.called
  /\ call' = [call EXCEPT !.count = clampCount(call.arg),
                          !.out = slice(call.results, clampCount(call.arg)),
                          !.called = TRUE]
  /\ UNCHANGED <<impl, scope, clock, ticks, requestCount, lastReset, RATE_LIMITS,
                 SESSION_STORE, req>>

NextCount == CallCount

SpecCount == InitCount /\ [][NextCount]_vars

(* C16: for every integer count argument the maximum the handler uses is the *)
(* argument clamped to [1, 20] (1 for every count below 1, 0 included; 20    *)
(* for every count above 20), and 10 when the argument is absent; the answer *)
(* never holds more results than that.                                       *)

\* the count argument clamped to [1, 20], 10 when absent
ClampedAsClaimed(arg) ==
  IF Len(arg) = 0 THEN 10
  ELSE IF arg[1] < 1 THEN 1
  ELSE IF arg[1] > 20 THEN 20
  ELSE arg[1]

C16_CountClamped ==
  (call.fn = "count" /\ call.called) =>
    /\ call.count = ClampedAsClaimed(call.arg)
    /\ Len(call.out) <= ClampedAsClaimed(call.arg)

----------------------------------------------------------------------------
(* C17: once a request has completed the session establishment of its        *)
(* client (also when the landing page gave no cookies), a later request of   *)
(* that client that starts within the lifetime reuses the stored session:    *)
(* no landing delay and no landing fetch, the stored cookies and user agent  *)
(* on its search fetch, and the stored session left as it was.               *)

\* the landing fetch of task r returned in this step
EstablishmentCompleted(r) == req[r].landed = "pending" /\ req'[r].landed = "ok"

\* the request task r took in this step entered the search function while a
\* session of its client, not older than the lifetime, was stored
StartedWithSession(r) ==
  /\ impl # "tool1" /\ SearchStarted(r)
  /\ MapHas(SESSION_STORE, req'[r].client)
  /\ clock - SESSION_STORE[req'[r].client].timestamp <= Ttl

\* the search fetch of task r went out in this step
PrimarySent(r) == Len(req[r].sent) = 0 /\ Len(req'[r].sent) = 1

C17_Step ==
  \A r \in Slots :
    /\ (impl # "tool1" /\ EstablishmentCompleted(r)) =>
         /\ MapHas(SESSION_STORE', req[r].client)
         /\ SESSION_STORE'[req[r].client].cookies = req'[r].landingGot
         /\ SESSION_STORE'[req[r].client].timestamp = req[r].now
         /\ impl = "part" => SESSION_STORE'[req[r].client].userAgent = req[r].userAgent
    /\ StartedWithSession(r) =>
         /\ req'[r].pc \in {"typingDelay", "delay"}
         /\ req'[r].landed = "no" /\ req'[r].had = "valid"
         /\ req'[r].cookies = SESSION_STORE[req'[r].client].cookies
         /\ impl = "part" =>
              req'[r].userAgent = SESSION_STORE[req'[r].client].userAgent
         /\ SESSION_STORE' = SESSION_STORE
    /\ (impl # "tool1" /\ PrimarySent(r) /\ req[r].had = "valid") =>
         /\ req[r].landed = "no"
         /\ req'[r].sent[1].cookies = req[r].cookies
         /\ req'[r].sent[1].userAgent = req[r].userAgent
         /\ SESSION_STORE' = SESSION_STORE

C17_SessionReused == [][C17_Step]_vars

(* C18: with requests of one client in flight together, in any order of     *)
(* their steps, the limiter admits no more than the ceiling in one window:   *)
(* the record is read, checked and incremented in the one step in which the  *)
(* request arrives, no other step touches it, and every request in flight    *)
(* that was admitted in the current window is counted in the record.         *)

\* the limiter's state
RateState == <<RATE_LIMITS, requestCount, lastReset>>

\* the requests in flight of a client that were admitted in the window of its
\* current record (tool2 and part keep the time of the call)
AdmittedInWindow(ip) ==
  { r \in Slots :
      /\ InFlight(req[r]) /\ req[r].client = ip
      /\ MapHas(RATE_LIMITS, ip)
      /\ req[r].now <= RATE_LIMITS[ip].reset
      /\ req[r].now >= RATE_LIMITS[ip].reset - WINDOW_MS }

C18_Counted ==
  impl # "tool1" =>
    \A ip \in Clients :
      /\ \A r \in Slots : (InFlight(req[r]) /\ req[r].client = ip) => MapHas(RATE_LIMITS, ip)
      /\ MapHas(RATE_LIMITS, ip) =>
           /\ Cardinality(AdmittedInWindow(ip)) <= RATE_LIMITS[ip].count
           /\ RATE_LIMITS[ip].count <= Ceiling

C18_Step ==
  /\ RateState' # RateState => \E r \in Slots : LimiterCalled(r) /\ ~RateLimited(req'[r])
  /\ \A r \in Slots :
       LET ip == req'[r].client
           inWindow == HasRecord(RATE_LIMITS, ip)
                         /\ clock <= ResetAtOf(RATE_LIMITS, lastReset, ip)
       IN  (LimiterCalled(r) /\ ~RateLimited(req'[r])) =>
             /\ CountOf(RATE_LIMITS', requestCount', ip)
                  = (IF inWindow THEN CountOf(RATE_LIMITS, requestCount, ip) + 1 ELSE 1)
             /\ CountOf(RATE_LIMITS', requestCount', ip) <= Ceiling

C18_NoOverAdmission == [](C18_Counted) /\ [][C18_Step]_vars

\* part has rejected a request of a client while another request of that
\* client, admitted in the same window, is still in flight
C18_Witness ==
  \E r, q \in Slots :
    /\ impl = "part" /\ r # q
    /\ InFlight(req[r]) /\ r \in AdmittedInWindow(req[r].client)
    /\ RateLimited(req[q]) /\ req[q].client = req[r].client
    /\ RATE_LIMITS[req[r].client].count = MAX_PER_MIN

(* C19: when requests of one client that found no valid session are in       *)
(* flight together, then in any order of their steps the store ends with one *)
(* session for the client, the one written by the request that stored last,  *)
(* and each request sends on its search fetch the cookies and the user agent *)
(* of one session establishment, its own.                                    *)

\* task r runs a request that found no valid session when it started
StartedWithout(rec) == rec.pc # "idle" /\ rec.had \in {"none", "expired"}

\* the session establishment of the request is over
PastEstablishment(rec) == rec.landed \in {"ok", "throw"}

C19_Ends ==
  \A r, q \in Slots :
    (/\ impl # "tool1" /\ r # q
     /\ StartedWithout(req[r]) /\ StartedWithout(req[q])
     /\ req[r].client = req[q].client
     /\ PastEstablishment(req[r]) /\ PastEstablishment(req[q]))
    => /\ MapHas(SESSION_STORE, req[r].client)
       /\ SESSION_STORE[req[r].client].cookies \in {req[r].landingGot, req[q].landingGot}

C19_Step ==
  \A r \in Slots :
    /\ (impl # "tool1" /\ SESSION_STORE' # SESSION_STORE /\ req[r].landed = "pending"
          /\ req'[r].landed # "pending") =>
         /\ MapHas(SESSION_STORE', req[r].client)
         /\ SESSION_STORE'[req[r].client].cookies = req'[r].landingGot
         /\ SESSION_STORE'[req[r].client].timestamp = req[r].now
         /\ impl = "part" => SESSION_STORE'[req[r].client].userAgent = req[r].userAgent
         /\ \A ip \in DOMAIN SESSION_STORE' :
              ip # req[r].client => /\ MapHas(SESSION_STORE, ip)
                                    /\ SESSION_STORE'[ip] = SESSION_STORE[ip]
    /\ (impl # "tool1" /\ PrimarySent(r) /\ StartedWithout(req[r])) =>
         /\ PastEstablishment(req[r])
         /\ req'[r].sent[1].cookies = req[r].landingGot
         /\ req'[r].sent[1].userAgent = req[r].userAgent

C19_LastWriterWins == [](C19_Ends) /\ [][C19_Step]_vars

(* C20: rate-limit and session state are kept per client: a request of one  *)
(* client never changes the rate record or the session of another client,    *)
(* and a request is rejected only on the count of its own client's record.   *)

\* what the limiter keeps for a client: tool1 keeps one counter for all
RecordOf(limits, rc, last, ip) ==
  IF impl = "tool1" THEN <<rc, last>>
  ELSE IF MapHas(limits, ip) THEN <<limits[ip]>> ELSE <<>>

SessionOf(store, ip) == IF MapHas(store, ip) THEN <<store[ip]>> ELSE <<>>

\* the client whose request task r ran in this step
ActorOf(r) == IF req'[r].pc = "idle" THEN req[r].client ELSE req'[r].client

C20_Step ==
  \A r \in Slots :
    req'[r] # req[r] =>
      /\ \A b \in scope.clients \ {ActorOf(r)} :
           /\ RecordOf(RATE_LIMITS', requestCount', lastReset', b)
                = RecordOf(RATE_LIMITS, requestCount, lastReset, b)
           /\ SessionOf(SESSION_STORE', b) = SessionOf(SESSION_STORE, b)
      /\ LimiterRejected(r) =>
           /\ HasRecord(RATE_LIMITS, ActorOf(r))
           /\ CountOf(RATE_LIMITS, requestCount, ActorOf(r)) >= Ceiling

C20_PerClient == [][C20_Step]_vars

====
